---- MODULE Spec2Model ----
(***************************************************************************)
(* Model of the three developer scripts build.py, check.py and dev.py.     *)
(* Every external collaborator (npm, grep, the quality shell script, the   *)
(* file system, the browser, the interrupt signal) is an environment       *)
(* input chosen where the script consults it.                              *)
(***************************************************************************)
EXTENDS Integers, Sequences, FiniteSets, TLC

\* ---------------------------------------------------------------- bounds
MaxLines == 12        \* longest source tree handed to the pattern scanner
MaxSpecial == 2       \* lines of a scanner tree that differ from BaseLine
MaxMainLines == 2     \* longest source tree in a full check.py run
MaxExitCode == 2      \* exit codes 0..MaxExitCode of an external command
MaxRelay == 2         \* output lines relayed by dev.py before the bound stops counting

\* ------------------------------------------------------- program constants
DisplayLimit == 10    \* filtered[:10] / len(filtered) > 10

VARIABLES script, args, pc, calls, exitStatus, raised, child, relayed,
          interrupted, results, tree, report, sizeReported, tcOutcome,
          childCode, nodeModules

vars == <<script, args, pc, calls, exitStatus, raised, child, relayed,
          interrupted, results, tree, report, sizeReported, tcOutcome,
          childCode, nodeModules>>

ExitCodes == 0..MaxExitCode

Min(a, b) == IF a < b THEN a ELSE b

InSeq(x, s) == \E i \in DOMAIN s : s[i] = x

\* filtered[:n]
Take(s, n) == SubSeq(s, 1, Min(n, Len(s)))

\* ---------------------------------------------------------- source trees
\* A source line is a path (its components) and a text (its tokens).  A tree
\* is the sequence of the lines of src/ in grep's traversal order.
BaseLine      == [path |-> <<"src", "App.tsx">>, text |-> <<"console.log", " 42">>]
ClassNameLine == [path |-> <<"src", "App.tsx">>, text |-> <<"className=", "p-12">>]
ClassAttrLine == [path |-> <<"src", "App.tsx">>, text |-> <<"class=\"", "p-12">>]
HandlerLine   == [path |-> <<"src", "utils", "errorHandler.ts">>, text |-> <<"console.log">>]
PlainLine     == [path |-> <<"src", "App.tsx">>, text |-> <<"x42">>]

SpecialLines == {ClassNameLine, ClassAttrLine, HandlerLine, PlainLine}

TreesOfLen(n, special) ==
  { [i \in 1..n |-> IF i \in DOMAIN f THEN f[i] ELSE BaseLine] :
      f \in UNION { [S -> SpecialLines] :
                      S \in { T \in SUBSET (1..n) : Cardinality(T) <= special } } }

Trees(maxLen, special) == UNION { TreesOfLen(n, special) : n \in 0..maxLen }

\* ------------------------------------------------------------------ grep
\* tokens holding a match of the regex [^a-zA-Z_][0-9]{2,}
MagicTokens == {" 42", "p-12"}

MatchesMagic(text) == \E i \in DOMAIN text : text[i] \in MagicTokens

MatchesConsole(text) == InSeq("console.log", text)

\* the pattern each scan hands to grep
Matches(scan, text) ==
  IF scan = "magic" THEN MatchesMagic(text) ELSE MatchesConsole(text)

\* grep -rn: one output line "path:num:text" per matching source line
RECURSIVE GrepLines(_, _, _)
GrepLines(t, scan, i) ==
  IF i > Len(t) THEN <<>>
  ELSE IF Matches(scan, t[i].text)
       THEN <<[path |-> t[i].path, num |-> i, text |-> t[i].text]>>
            \o GrepLines(t, scan, i + 1)
       ELSE GrepLines(t, scan, i + 1)

\* subprocess.run(["grep", ...], capture_output=True, text=True)
GrepRun(t, scan, installed, srcExists) ==
  IF ~installed THEN [exc |-> "FileNotFoundError", returncode |-> 2, lines |-> <<>>]
  ELSE IF ~srcExists THEN [exc |-> "none", returncode |-> 2, lines |-> <<>>]
  ELSE LET out == GrepLines(t, scan, 1)
       IN [exc |-> "none",
           returncode |-> IF out = <<>> THEN 1 ELSE 0,
           lines |-> out]

\* 'marker' in line, the line being "path:num:text"
LineContains(line, marker) == InSeq(marker, line.path) \/ InSeq(marker, line.text)

\* ------------------------------------------------------- pattern scanner
NoReport == [name |-> "none", passed |-> TRUE, message |-> "none",
             lines |-> <<>>, filtered |-> <<>>, shown |-> <<>>, remainder |-> <<>>]

\* ShowMatches with the remainder line printed from the tenth match on
ShowMatchesOffByOne(name, lines, filtered) ==
  IF filtered # <<>>
  THEN [name |-> name, passed |-> TRUE, message |-> "found",
        lines |-> lines, filtered |-> filtered,
        shown |-> Take(filtered, DisplayLimit),
        remainder |-> IF Len(filtered) >= DisplayLimit
                      THEN <<Len(filtered) - DisplayLimit>> ELSE <<>>]
  ELSE [name |-> name, passed |-> TRUE, message |-> "none_after_exemption",
        lines |-> lines, filtered |-> <<>>, shown |-> <<>>, remainder |-> <<>>]

\* the display branch shared by both scans: header with the count, the first
\* DisplayLimit lines, then the "... N more" line
ShowMatches(name, lines, filtered) ==
  IF filtered # <<>>
  THEN [name |-> name, passed |-> TRUE, message |-> "found",
        lines |-> lines, filtered |-> filtered,
        shown |-> Take(filtered, DisplayLimit),
        remainder |-> IF Len(filtered) > DisplayLimit
                      THEN <<Len(filtered) - DisplayLimit>> ELSE <<>>]
  ELSE [name |-> name, passed |-> TRUE, message |-> "none_after_exemption",
        lines |-> lines, filtered |-> <<>>, shown |-> <<>>, remainder |-> <<>>]

\* MagicKeep without the class=" test
MagicKeepClassNameOnly(line) == ~LineContains(line, "className=")

MagicKeep(line) == ~LineContains(line, "className=") /\ ~LineContains(line, "class=\"")

ConsoleKeep(line) == ~LineContains(line, "errorHandler.ts")

\* the exemption test of each scan
Keep(scan, line) == IF scan = "magic" THEN MagicKeep(line) ELSE ConsoleKeep(line)

RECURSIVE SelectLines(_, _, _)
\* list comprehension [line for line in lines if ...], order preserved
SelectLines(lines, scan, i) ==
  IF i > Len(lines) THEN <<>>
  ELSE IF Keep(scan, lines[i]) THEN <<lines[i]>> \o SelectLines(lines, scan, i + 1)
       ELSE SelectLines(lines, scan, i + 1)

\* the body both scans share: grep result, exemption, display
ScanReport(name, result) ==
  IF result.exc = "FileNotFoundError"
  THEN [name |-> name, passed |-> TRUE, message |-> "skipped",
        lines |-> <<>>, filtered |-> <<>>, shown |-> <<>>, remainder |-> <<>>]
  ELSE IF result.returncode = 0
       THEN ShowMatches(name, result.lines, SelectLines(result.lines, name, 1))
       ELSE [name |-> name, passed |-> TRUE, message |-> "none",
             lines |-> <<>>, filtered |-> <<>>, shown |-> <<>>, remainder |-> <<>>]

search_magic_numbers(t, installed, srcExists) ==
  ScanReport("magic", GrepRun(t, "magic", installed, srcExists))

search_console_log(t, installed, srcExists) ==
  ScanReport("console", GrepRun(t, "console", installed, srcExists))

NoArgs == [tauri |-> FALSE, check_only |-> FALSE, skip_check |-> FALSE, quick |-> FALSE]

\* ---------------------------------------------- scanner called on its own
InitScan ==
  /\ script = "scan"
  /\ args = NoArgs
  /\ pc = "start"
  /\ calls = <<>>
  /\ exitStatus = <<>>
  /\ raised = "none"
  /\ child = "none"
  /\ relayed = 0
  /\ interrupted = FALSE
  /\ results = <<>>
  /\ tree \in Trees(MaxLines, MaxSpecial)
  /\ report = NoReport
  /\ sizeReported = FALSE
  /\ tcOutcome = "none"
  /\ childCode = <<>>
  /\ nodeModules = TRUE

CallSearchMagicNumbers ==
  /\ script = "scan" /\ pc = "start"
  /\ \E installed \in BOOLEAN, srcExists \in BOOLEAN :
       report' = search_magic_numbers(tree, installed, srcExists)
  /\ calls' = Append(calls, "grep magic")
  /\ pc' = "returned"
  /\ UNCHANGED <<script, args, nodeModules, exitStatus, raised, child, relayed, interrupted,
                 results, tree, sizeReported, tcOutcome, childCode>>

CallSearchConsoleLog ==
  /\ script = "scan" /\ pc = "start"
  /\ \E installed \in BOOLEAN, srcExists \in BOOLEAN :
       report' = search_console_log(tree, installed, srcExists)
  /\ calls' = Append(calls, "grep console")
  /\ pc' = "returned"
  /\ UNCHANGED <<script, args, nodeModules, exitStatus, raised, child, relayed, interrupted,
                 results, tree, sizeReported, tcOutcome, childCode>>

NextScan == CallSearchMagicNumbers \/ CallSearchConsoleLog

SpecScan == InitScan /\ [][NextScan]_vars

\* ================================================================ build.py
\* run_command without its except clause
run_command_uncaught(rc) ==
  [ok |-> rc = 0, exc |-> IF rc = 0 THEN "none" ELSE "CalledProcessError"]

\* run_command: check=True turns a non-zero exit into CalledProcessError,
\* which the except clause turns into the return value False
run_command(rc) == [ok |-> rc = 0, exc |-> "none"]

check_types(rc) == run_command(rc)

build_tauri(rc) == run_command(rc)

\* build_web: the size report is printed only after a successful build and
\* only when dist/ exists
build_web(rc, distExists) ==
  LET r == run_command(rc)
  IN [ok |-> r.ok, exc |-> r.exc, size |-> r.ok /\ r.exc = "none" /\ distExists]

\* an exception nobody catches: traceback, exit status 1
Crash(exc) ==
  /\ pc' = "crashed"
  /\ raised' = exc
  /\ exitStatus' = <<1>>

\* sys.exit(code)
SysExit(code) ==
  /\ pc' = "exited"
  /\ exitStatus' = <<code>>
  /\ raised' = raised

\* BuildTypeCheck that runs the type-check whatever --skip-check says
BuildTypeCheckIgnoringSkip ==
  /\ script = "build" /\ pc = "start"
  /\ \E rc \in ExitCodes :
       LET r == check_types(rc)
       IN /\ calls' = Append(calls, "npm run type-check")
          /\ tcOutcome' = IF rc = 0 THEN "pass" ELSE "fail"
          /\ IF r.exc # "none" THEN Crash(r.exc)
             ELSE IF ~r.ok THEN SysExit(1)
             ELSE /\ pc' = "checked"
                  /\ UNCHANGED <<exitStatus, raised>>
  /\ UNCHANGED <<script, args, nodeModules, child, relayed, interrupted,
                 results, tree, report, sizeReported, childCode>>

\* main, lines 108-113: the type-check unless --skip-check
BuildTypeCheck ==
  /\ script = "build" /\ pc = "start"
  /\ IF args.skip_check
     THEN /\ pc' = "checked"
          /\ UNCHANGED <<calls, exitStatus, raised, tcOutcome>>
     ELSE \E rc \in ExitCodes :
            LET r == check_types(rc)
            IN /\ calls' = Append(calls, "npm run type-check")
               /\ tcOutcome' = IF rc = 0 THEN "pass" ELSE "fail"
               /\ IF r.exc # "none" THEN Crash(r.exc)
                  ELSE IF ~r.ok THEN SysExit(1)
                  ELSE /\ pc' = "checked"
                       /\ UNCHANGED <<exitStatus, raised>>
  /\ UNCHANGED <<script, args, nodeModules, child, relayed, interrupted, results, tree,
                 report, sizeReported, childCode>>

\* main, lines 116-118
BuildCheckOnly ==
  /\ script = "build" /\ pc = "checked"
  /\ args.check_only
  /\ SysExit(0)
  /\ UNCHANGED <<script, args, nodeModules, calls, child, relayed, interrupted, results,
                 tree, report, sizeReported, tcOutcome, childCode>>

\* BuildRun that does not look at --check-only
BuildRunIgnoringCheckOnly ==
  /\ script = "build" /\ pc = "checked"
  /\ \E rc \in ExitCodes, distExists \in BOOLEAN :
       LET r == IF args.tauri
                THEN [ok |-> build_tauri(rc).ok, exc |-> build_tauri(rc).exc,
                      size |-> FALSE]
                ELSE build_web(rc, distExists)
       IN /\ calls' = Append(calls, IF args.tauri THEN "npm run tauri:build"
                                                  ELSE "npm run build")
          /\ childCode' = <<rc>>
          /\ sizeReported' = r.size
          /\ IF r.exc # "none" THEN Crash(r.exc)
             ELSE IF r.ok THEN SysExit(0) ELSE SysExit(1)
  /\ UNCHANGED <<script, args, nodeModules, child, relayed, interrupted,
                 results, tree, report, tcOutcome>>

\* main, lines 121-133
BuildRun ==
  /\ script = "build" /\ pc = "checked"
  /\ ~args.check_only
  /\ \E rc \in ExitCodes, distExists \in BOOLEAN :
       LET r == IF args.tauri
                THEN [ok |-> build_tauri(rc).ok, exc |-> build_tauri(rc).exc,
                      size |-> FALSE]
                ELSE build_web(rc, distExists)
       IN /\ calls' = Append(calls, IF args.tauri THEN "npm run tauri:build"
                                                  ELSE "npm run build")
          /\ childCode' = <<rc>>
          /\ sizeReported' = r.size
          /\ IF r.exc # "none" THEN Crash(r.exc)
             ELSE IF r.ok THEN SysExit(0) ELSE SysExit(1)
  /\ UNCHANGED <<script, args, nodeModules, child, relayed, interrupted, results, tree,
                 report, tcOutcome>>

\* ================================================================== dev.py
\* check_node_modules that never reports the directory missing
check_node_modules_always(exists) == TRUE

\* check_node_modules: Path("node_modules").exists()
check_node_modules(exists) == exists

\* main, lines 164-172
DevCheckNodeModules ==
  /\ script = "dev" /\ pc = "start"
  /\ IF ~check_node_modules(nodeModules)
     THEN SysExit(1)
     ELSE /\ pc' = IF args.tauri THEN "tauri" ELSE "web"
          /\ UNCHANGED <<exitStatus, raised>>
  /\ UNCHANGED <<script, args, nodeModules, calls, child, relayed, interrupted, results,
                 tree, report, sizeReported, tcOutcome, childCode>>

\* TauriExit with check=False: the child's failure goes unnoticed
TauriExitUnchecked(rc) == 0

\* exit status of dev.py after start_tauri_dev ran the child to exit code rc
TauriExit(rc) == IF rc = 0 THEN 0 ELSE 1

\* start_tauri_dev: subprocess.run(..., check=True) in the foreground
DevTauri ==
  /\ script = "dev" /\ pc = "tauri"
  /\ calls' = Append(calls, "subprocess.run npm run tauri:dev")
  /\ \/ \E rc \in ExitCodes :
          /\ childCode' = <<rc>>
          /\ SysExit(TauriExit(rc))
     \/ \* FileNotFoundError or any other Exception while launching
        /\ childCode' = childCode
        /\ SysExit(1)
  /\ UNCHANGED <<script, args, nodeModules, child, relayed, interrupted, results, tree,
                 report, sizeReported, tcOutcome>>

\* start_web_dev, lines 64-73: subprocess.Popen
DevPopen ==
  /\ script = "dev" /\ pc = "web"
  /\ calls' = Append(calls, "subprocess.Popen npm run dev")
  /\ \/ /\ child' = "running"
        /\ pc' = "sleep"
        /\ UNCHANGED <<exitStatus, raised>>
     \/ \* FileNotFoundError or any other Exception while launching
        /\ child' = child
        /\ SysExit(1)
  /\ UNCHANGED <<script, args, nodeModules, relayed, interrupted, results, tree, report,
                 sizeReported, tcOutcome, childCode>>

\* time.sleep(WAIT_TIME_SECONDS)
DevSleep ==
  /\ script = "dev" /\ pc = "sleep"
  /\ pc' = "browser"
  /\ UNCHANGED <<script, args, nodeModules, calls, exitStatus, raised, child, relayed,
                 interrupted, results, tree, report, sizeReported, tcOutcome,
                 childCode>>

\* webbrowser.open(DEV_SERVER_URL); an Exception it raises reaches line 106
DevOpenBrowser ==
  /\ script = "dev" /\ pc = "browser"
  /\ calls' = Append(calls, "webbrowser.open")
  /\ \/ /\ pc' = "relay"
        /\ UNCHANGED <<exitStatus, raised>>
     \/ SysExit(1)
  /\ UNCHANGED <<script, args, nodeModules, child, relayed, interrupted, results, tree,
                 report, sizeReported, tcOutcome, childCode>>

\* the child process ends by itself or after the termination signal
ChildExits ==
  /\ script = "dev" /\ child \in {"running", "terminating"}
  /\ pc \in {"sleep", "browser", "relay", "terminate", "wait"}
  /\ child' = "exited"
  /\ UNCHANGED <<script, args, nodeModules, pc, calls, exitStatus, raised, relayed,
                 interrupted, results, tree, report, sizeReported, tcOutcome,
                 childCode>>

\* for line in process.stdout: print(line, end='')
DevRelayLine ==
  /\ script = "dev" /\ pc = "relay"
  /\ relayed < MaxRelay
  /\ relayed' = relayed + 1
  /\ UNCHANGED <<script, args, nodeModules, pc, calls, exitStatus, raised, child,
                 interrupted, results, tree, report, sizeReported, tcOutcome,
                 childCode>>

\* end of the child's output: the loop ends, start_web_dev and main return
DevRelayEOF ==
  /\ script = "dev" /\ pc = "relay"
  /\ child = "exited"
  /\ SysExit(0)
  /\ UNCHANGED <<script, args, nodeModules, calls, child, relayed, interrupted, results,
                 tree, report, sizeReported, tcOutcome, childCode>>

\* KeyboardInterrupt: caught only inside the relay loop (line 96); it is not
\* an Exception, so anywhere else in start_web_dev it leaves the script
DevInterrupt ==
  /\ script = "dev" /\ pc \in {"sleep", "browser", "relay", "terminate", "wait"}
  /\ IF pc = "relay"
     THEN /\ pc' = "terminate"
          /\ interrupted' = TRUE
          /\ UNCHANGED <<raised>>
     ELSE /\ pc' = "killed"
          /\ raised' = "KeyboardInterrupt"
          /\ UNCHANGED <<interrupted>>
  /\ UNCHANGED <<script, args, nodeModules, calls, exitStatus, child, relayed, results,
                 tree, report, sizeReported, tcOutcome, childCode>>

\* process.terminate()
DevTerminate ==
  /\ script = "dev" /\ pc = "terminate"
  /\ calls' = Append(calls, "terminate")
  /\ child' = IF child = "running" THEN "terminating" ELSE child
  /\ pc' = "wait"
  /\ UNCHANGED <<script, args, nodeModules, exitStatus, raised, relayed, interrupted,
                 results, tree, report, sizeReported, tcOutcome, childCode>>

\* DevWait that returns without waiting for the child
DevWaitNoBlock ==
  /\ script = "dev" /\ pc = "wait"
  /\ calls' = Append(calls, "wait")
  /\ SysExit(0)
  /\ UNCHANGED <<script, args, nodeModules, child, relayed, interrupted,
                 results, tree, report, sizeReported, tcOutcome, childCode>>

\* process.wait() blocks until the child has exited; then start_web_dev and
\* main return
DevWait ==
  /\ script = "dev" /\ pc = "wait"
  /\ child = "exited"
  /\ calls' = Append(calls, "wait")
  /\ SysExit(0)
  /\ UNCHANGED <<script, args, nodeModules, child, relayed, interrupted, results, tree,
                 report, sizeReported, tcOutcome, childCode>>

\* ================================================================ check.py
\* run_type_check: CalledProcessError becomes the return value False
run_type_check(rc) == rc = 0

\* run_code_quality_check that reports a script that could not be run
run_code_quality_check_strict(scriptExists, launched) ==
  IF ~scriptExists THEN TRUE
  ELSE IF launched THEN TRUE
  ELSE FALSE

\* run_code_quality_check: check=False, every Exception swallowed
run_code_quality_check(scriptExists, launched) ==
  IF ~scriptExists THEN TRUE
  ELSE IF launched THEN TRUE
  ELSE TRUE

\* CheckTypeCheck that continues with the other checks even with --quick
CheckTypeCheckNoQuick ==
  /\ script = "check" /\ pc = "start"
  /\ \E rc \in ExitCodes :
       /\ tcOutcome' = IF rc = 0 THEN "pass" ELSE "fail"
       /\ results' = Append(results, [name |-> "TypeScript", passed |-> run_type_check(rc)])
  /\ calls' = Append(calls, "npm run type-check")
  /\ pc' = "quality"
  /\ UNCHANGED <<script, args, nodeModules, exitStatus, raised, child, relayed,
                 interrupted, tree, report, sizeReported, childCode>>

\* main, line 163
CheckTypeCheck ==
  /\ script = "check" /\ pc = "start"
  /\ \E rc \in ExitCodes :
       /\ tcOutcome' = IF rc = 0 THEN "pass" ELSE "fail"
       /\ results' = Append(results, [name |-> "TypeScript", passed |-> run_type_check(rc)])
  /\ calls' = Append(calls, "npm run type-check")
  /\ pc' = IF args.quick THEN "summary" ELSE "quality"
  /\ UNCHANGED <<script, args, nodeModules, exitStatus, raised, child, relayed, interrupted,
                 tree, report, sizeReported, childCode>>

\* main, line 167
CheckQuality ==
  /\ script = "check" /\ pc = "quality"
  /\ \E scriptExists \in BOOLEAN, launched \in BOOLEAN :
       /\ results' = Append(results, [name |-> "quality",
                        passed |-> run_code_quality_check(scriptExists, launched)])
       /\ calls' = IF scriptExists THEN Append(calls, "check-code-quality.sh")
                   ELSE calls
  /\ pc' = "magic"
  /\ UNCHANGED <<script, args, nodeModules, exitStatus, raised, child, relayed, interrupted,
                 tree, report, sizeReported, tcOutcome, childCode>>

\* main, line 168
CheckMagic ==
  /\ script = "check" /\ pc = "magic"
  /\ \E installed \in BOOLEAN, srcExists \in BOOLEAN :
       LET r == search_magic_numbers(tree, installed, srcExists)
       IN /\ report' = r
          /\ results' = Append(results, [name |-> "magic", passed |-> r.passed])
  /\ calls' = Append(calls, "grep magic")
  /\ pc' = "console"
  /\ UNCHANGED <<script, args, nodeModules, exitStatus, raised, child, relayed, interrupted,
                 tree, sizeReported, tcOutcome, childCode>>

\* main, line 169
CheckConsole ==
  /\ script = "check" /\ pc = "console"
  /\ \E installed \in BOOLEAN, srcExists \in BOOLEAN :
       LET r == search_console_log(tree, installed, srcExists)
       IN /\ report' = r
          /\ results' = Append(results, [name |-> "console", passed |-> r.passed])
  /\ calls' = Append(calls, "grep console")
  /\ pc' = "summary"
  /\ UNCHANGED <<script, args, nodeModules, exitStatus, raised, child, relayed, interrupted,
                 tree, sizeReported, tcOutcome, childCode>>

\* main, lines 176-181
AllPassed(rs) == \A i \in DOMAIN rs : rs[i].passed

\* main, lines 171-189
CheckSummary ==
  /\ script = "check" /\ pc = "summary"
  /\ IF AllPassed(results) THEN SysExit(0) ELSE SysExit(1)
  /\ UNCHANGED <<script, args, nodeModules, calls, child, relayed, interrupted, results,
                 tree, report, sizeReported, tcOutcome, childCode>>

\* ------------------------------------------------------- the three scripts
ArgSets(s) ==
  IF s = "build"
  THEN { [tauri |-> t, check_only |-> c, skip_check |-> k, quick |-> FALSE] :
           t \in BOOLEAN, c \in BOOLEAN, k \in BOOLEAN }
  ELSE IF s = "dev"
  THEN { [tauri |-> t, check_only |-> FALSE, skip_check |-> FALSE, quick |-> FALSE] :
           t \in BOOLEAN }
  ELSE { [tauri |-> FALSE, check_only |-> FALSE, skip_check |-> FALSE, quick |-> q] :
           q \in BOOLEAN }

Init ==
  /\ script \in {"build", "check", "dev"}
  /\ args \in ArgSets(script)
  /\ pc = "start"
  /\ calls = <<>>
  /\ exitStatus = <<>>
  /\ raised = "none"
  /\ child = "none"
  /\ relayed = 0
  /\ interrupted = FALSE
  /\ results = <<>>
  /\ tree \in IF script = "check" THEN Trees(MaxMainLines, MaxSpecial) ELSE {<<>>}
  /\ report = NoReport
  /\ sizeReported = FALSE
  /\ tcOutcome = "none"
  /\ childCode = <<>>
  /\ nodeModules \in IF script = "dev" THEN BOOLEAN ELSE {TRUE}

Next ==
  \/ BuildTypeCheck \/ BuildCheckOnly \/ BuildRun
  \/ DevCheckNodeModules \/ DevTauri \/ DevPopen \/ DevSleep \/ DevOpenBrowser
  \/ ChildExits \/ DevRelayLine \/ DevRelayEOF \/ DevInterrupt
  \/ DevTerminate \/ DevWait
  \/ CheckTypeCheck \/ CheckQuality \/ CheckMagic \/ CheckConsole \/ CheckSummary

Spec == Init /\ [][Next]_vars

\* ================================================================== claims
Terminated == pc \in {"exited", "crashed"}

TypeCheckInvoked == InSeq("npm run type-check", calls)

BuildInvoked == InSeq("npm run build", calls) \/ InSeq("npm run tauri:build", calls)

\* C1: with --check-only the build step is never invoked, whatever --tauri
\* and --skip-check are, and the exit status is that of the type-check: 1 when
\* it failed, 0 when it passed (0 too when --skip-check left it out).
C1_CheckOnlyNeverBuilds ==
  (script = "build" /\ args.check_only) =>
    /\ ~BuildInvoked
    /\ Terminated => /\ pc = "exited"
                     /\ tcOutcome = "pass" => exitStatus = <<0>>
                     /\ tcOutcome = "fail" => exitStatus = <<1>>
                     /\ tcOutcome = "none" => (args.skip_check /\ exitStatus = <<0>>)

C1_Witness ==
  /\ script = "build" /\ args.check_only /\ args.tauri /\ ~args.skip_check
  /\ pc = "exited" /\ tcOutcome = "pass" /\ exitStatus = <<0>>

\* C2 as stated: with --skip-check the type-check is never invoked and the
\* build step is always invoked, whatever --tauri and --check-only are.
C2_Original ==
  (script = "build" /\ args.skip_check) =>
    /\ ~TypeCheckInvoked
    /\ Terminated => BuildInvoked

\* C2 amended: with --skip-check the type-check is never invoked; the build
\* step is invoked unless --check-only is given too, and then the process
\* exits with status 0 without building.
C2_SkipCheckBuildsUnlessCheckOnly ==
  (script = "build" /\ args.skip_check) =>
    /\ ~TypeCheckInvoked
    /\ Terminated => /\ BuildInvoked <=> ~args.check_only
                     /\ args.check_only => exitStatus = <<0>>

C2_Witness ==
  /\ script = "build" /\ args.skip_check /\ ~args.check_only
  /\ pc = "exited" /\ BuildInvoked /\ ~TypeCheckInvoked

\* C3: without --skip-check a failing type-check ends the process with
\* status 1 before any build; run_command hands the failure back as False
\* and raises nothing.
C3_TypeCheckFailureFatal ==
  (script = "build" /\ ~args.skip_check /\ tcOutcome = "fail") =>
    /\ pc = "exited"
    /\ exitStatus = <<1>>
    /\ raised = "none"
    /\ ~BuildInvoked
    /\ calls = <<"npm run type-check">>

C3_Witness ==
  /\ script = "build" /\ ~args.skip_check /\ ~args.check_only
  /\ tcOutcome = "fail" /\ exitStatus = <<1>>

\* C4: with no node_modules directory, in both modes, the process exits with
\* status 1 having launched no external process.
C4_MissingNodeModulesExitsFirst ==
  (script = "dev" /\ ~nodeModules) =>
    /\ calls = <<>>
    /\ child = "none"
    /\ pc \in {"start", "exited"}
    /\ pc = "exited" => exitStatus = <<1>>

C4_Witness ==
  /\ script = "dev" /\ ~nodeModules /\ args.tauri
  /\ pc = "exited" /\ exitStatus = <<1>> /\ calls = <<>>

\* C5: an interrupt during the output relay makes start_web_dev terminate the
\* child and then wait for it, and it returns only once the child has exited.
C5_InterruptTerminatesAndWaits ==
  (script = "dev" /\ interrupted) =>
    /\ pc \in {"terminate", "wait", "exited", "killed"}
    /\ pc \in {"wait", "exited"} => InSeq("terminate", calls)
    /\ pc = "exited" =>
         /\ child = "exited"
         /\ Len(calls) >= 2
         /\ SubSeq(calls, Len(calls) - 1, Len(calls)) = <<"terminate", "wait">>

C5_Witness ==
  /\ script = "dev" /\ interrupted /\ pc = "exited" /\ child = "exited"
  /\ relayed > 0

\* C6 as stated: in desktop mode the exit code of the pipeline equals the exit
\* code of the child, whatever that is.
C6_Original ==
  (script = "dev" /\ args.tauri /\ pc = "exited" /\ childCode # <<>>) =>
    exitStatus = childCode

\* C6 amended: in desktop mode the child is run to completion in the
\* foreground, and the pipeline exits 0 when the child exits 0 and 1 when the
\* child exits with any other code.
C6_TauriExitZeroOrOne ==
  (script = "dev" /\ args.tauri /\ pc = "exited" /\ childCode # <<>>) =>
    /\ calls = <<"subprocess.run npm run tauri:dev">>
    /\ child = "none"
    /\ childCode = <<0>> => exitStatus = <<0>>
    /\ childCode # <<0>> => exitStatus = <<1>>

C6_Witness ==
  /\ script = "dev" /\ args.tauri /\ pc = "exited"
  /\ childCode = <<2>> /\ exitStatus = <<1>>

\* C7: with --quick only the type-check runs, and the summary has exactly
\* one row, the type-check result, whatever the source tree holds.
C7_QuickOnlyTypeCheck ==
  (script = "check" /\ args.quick) =>
    /\ \A i \in DOMAIN calls : calls[i] = "npm run type-check"
    /\ report = NoReport
    /\ pc \in {"summary", "exited"} =>
         /\ Len(results) = 1
         /\ results[1].name = "TypeScript"
         /\ results[1].passed = (tcOutcome = "pass")

C7_Witness ==
  /\ script = "check" /\ args.quick /\ pc = "exited"
  /\ Len(results) = 1
  /\ \E i \in DOMAIN tree : tree[i] = BaseLine

\* C8: of more than 10 non-exempt matches exactly the first 10 are shown, in
\* order, with a remainder of count - 10; of 10 or fewer all are shown and
\* there is no remainder line.
C8_FirstTenAndRemainder ==
  (report.name \in {"magic", "console"}) =>
    LET n == Len(report.filtered)
    IN /\ n > 10 => /\ Len(report.shown) = 10
                    /\ \A i \in 1..10 : report.shown[i] = report.filtered[i]
                    /\ report.remainder = <<n - 10>>
       /\ n <= 10 => /\ report.shown = report.filtered
                     /\ report.remainder = <<>>

C8_Witness ==
  /\ report.name = "console"
  /\ Len(report.filtered) = 12
  /\ Len(report.shown) = 10
  /\ report.remainder = <<2>>

HasClassMarker(line) == InSeq("className=", line.text) \/ InSeq("class=\"", line.text)

\* C9: the numeric-literal scan drops every matched line with a styling-class
\* marker and keeps every other matched line, in order; when every matched
\* line is exempt, or nothing matches, it passes with an empty match list.
C9_ClassMarkerExempt ==
  (report.name = "magic") =>
    /\ report.passed
    /\ \A i \in DOMAIN report.lines :
         (\E j \in DOMAIN report.filtered : report.filtered[j] = report.lines[i])
           <=> ~HasClassMarker(report.lines[i])
    /\ \A j \in DOMAIN report.filtered :
         \E i \in DOMAIN report.lines : report.filtered[j] = report.lines[i]
    /\ \A j, k \in DOMAIN report.filtered :
         j < k => report.filtered[j].num < report.filtered[k].num
    /\ (\A i \in DOMAIN tree : MatchesMagic(tree[i].text) => HasClassMarker(tree[i]))
         => /\ report.filtered = <<>>
            /\ report.shown = <<>>
            /\ report.message # "found"

C9_Witness ==
  /\ report.name = "magic"
  /\ \E i \in DOMAIN report.lines : InSeq("class=\"", report.lines[i].text)
  /\ \E i \in DOMAIN report.lines : InSeq("className=", report.lines[i].text)
  /\ Len(report.filtered) = Len(report.lines) - 2
  /\ Len(report.filtered) > 0

\* C10: the quality step and both scans are tallied as pass whatever
\* happens in them, so check.py exits 1 exactly when the type-check failed
\* and 0 otherwise.
C10_OnlyTypeCheckCanFail ==
  (script = "check") =>
    /\ \A i \in DOMAIN results : i > 1 => results[i].passed
    /\ pc = "exited" =>
         /\ exitStatus = <<1>> <=> tcOutcome = "fail"
         /\ exitStatus = <<0>> <=> tcOutcome = "pass"
         /\ exitStatus = <<1>> <=> (\E i \in DOMAIN results : ~results[i].passed)

C10_Witness ==
  /\ script = "check" /\ pc = "exited" /\ exitStatus = <<0>>
  /\ Len(results) = 4
  /\ report.message = "found"
  /\ ~InSeq("check-code-quality.sh", calls)

====
